---- MODULE Spec2Model ----
(***************************************************************************)
(* Model of src/src/slackEventHandler.py: the SlackEventHandler object     *)
(* (its configuration and the two mutators update_flag and add_responses)  *)
(* and the event loop of begin with the five behaviours it dispatches.     *)
(*                                                                         *)
(* Python values are encoded as follows.  None is the empty tuple and a    *)
(* present value x is <<x>>.  A dict is a function (record) whose DOMAIN   *)
(* is the set of its keys, so that a missing key is a key outside DOMAIN.  *)
(* A message text is a tuple of one-character strings.  A raised           *)
(* exception is the string of its class name.                              *)
(***************************************************************************)
EXTENDS Integers, Sequences, FiniteSets, TLC

\* ------------------------------------------------------------ bounds
\* constructor calls considered: at most this many arguments differ from their defaults
MaxCtorArgs == 2
\* update_flag / add_responses calls followed on one handler
MaxConfigOps == 2
\* add_responses(list) is followed while the resulting pool has at most this many strings
MaxPool == 3
\* events delivered by rtm_read have at most this many of the five fields missing
MaxMissing == 1
\* the clock is followed up to this value
MaxTime == 1

\* ------------------------------------------------------------ Python values
None == <<>>
Some(x) == <<x>>
NoException == "no exception"

SeqToSet(s) == {s[i] : i \in 1..Len(s)}

\* all orders in which the elements of a finite set can be listed
AllOrders(S) ==
    {s \in [1..Cardinality(S) -> S] : \A i, j \in 1..Cardinality(S) : s[i] = s[j] => i = j}

\* ------------------------------------------------------------ configuration
Flags == {"random_reply_flg", "random_gif_flg", "set_typing_flg", "mark_read_flg",
          "someones_talking_about_you_flg", "magic_eight_flg", "homophone_flg"}

\* flag names a caller may pass to update_flag
FlagNames == Flags \cup {"typing_flg"}

RunLevels == {"DM Only", "Private", "All"}

DefaultResponses ==
    << "Wow! That's so interesting!",
       "What hilarious hijinx you've been getting up to!",
       "Where has the time gone?",
       "Curious",
       "I've never thought of it that way.",
       "I'll keep that in mind.",
       "Thanks for letting me know.",
       "I'll be sure to follow up on that." >>

\* the words of the homophone dictionaries, as tuples of characters
W_there == <<"t", "h", "e", "r", "e">>
W_their == <<"t", "h", "e", "i", "r">>
W_ok    == <<"o", "k">>
W_okay  == <<"o", "k", "a", "y">>

\* the dictionary load_homophones reads when it is given no override
DefaultHomophones == [w \in {W_there} |-> W_their]
\* an override dictionary passed as init_homophones
OverrideHomophones == [w \in {W_ok} |-> W_okay]

load_homophones(init) == IF init = None THEN DefaultHomophones ELSE init[1]

\* the members users.list returns: id, name, and the profile's optional names
Members ==
    << [id |-> "U1", name |-> "ann",
        profile |-> [first_name |-> <<"A", "n">>, last_name |-> <<"L", "i">>]],
       [id |-> "U2", name |-> "bob",
        profile |-> [first_name |-> <<"B", "o">>] ] >>

VARIABLES
    handler_flags,  \* self.handler_flags
    run_level,      \* self.run_level
    users,          \* self.users: None or Some(tuple of user ids)
    responses,      \* self.responses
    stay_channel,   \* self.stay_channel
    homophones,     \* self.homophones: None or Some(dictionary)
    nops,           \* number of update_flag / add_responses calls made
    last,           \* the most recent public call and the exception it raised
    pc,             \* where begin is: idle (not called), loop, event, a behaviour, sleep, done
    connected,      \* sc.server.connected as begin last saw it
    all_users,      \* the directory begin built
    start_time,     \* begin's start_time
    length,         \* begin's argument
    now,            \* time.time()
    event,          \* what rtm_read returned last
    msg_type,       \* None or Some(what get_msg_type returned for event)
    invoked,        \* the behaviours called for event so far
    calls           \* the collaborator calls that returned while event was handled

config == <<handler_flags, run_level, users, responses, stay_channel, homophones>>
loop == <<pc, connected, all_users, start_time, length, now, event, msg_type, invoked, calls>>
vars == <<handler_flags, run_level, users, responses, stay_channel, homophones, nops, last,
          pc, connected, all_users, start_time, length, now, event, msg_type, invoked, calls>>

\* ------------------------------------------------------------ __init__
CtorUsers == {"None", "All", "U1"}
CtorResponses == {None, <<"r1", "r2">>}
CtorHomophones == {None, Some(OverrideHomophones)}

\* the number of arguments of a constructor call that differ from the defaults of lines 20-31
NonDefault(on, level, usr, resp, init_homophones) ==
    Cardinality(on) + (IF level # "DM Only" THEN 1 ELSE 0) + (IF usr # "None" THEN 1 ELSE 0)
      + (IF resp # None THEN 1 ELSE 0) + (IF init_homophones # None THEN 1 ELSE 0)

Construct(on, level, usr, resp, init_homophones) ==
    /\ handler_flags = [f \in Flags |-> f \in on]
    /\ run_level = level
    /\ users = CASE usr = "All" -> Some([i \in 1..Len(Members) |-> Members[i].id])
                 [] usr = "None" -> None
                 [] OTHER -> Some(<<usr>>)
    /\ responses = IF resp # <<>> THEN resp ELSE DefaultResponses
    /\ stay_channel = "S1"
    /\ homophones = IF "homophone_flg" \in on
                    THEN Some(load_homophones(init_homophones))
                    ELSE None

Init ==
    /\ \E on \in SUBSET Flags, level \in RunLevels, usr \in CtorUsers,
          resp \in CtorResponses, ih \in CtorHomophones :
            /\ NonDefault(on, level, usr, resp, ih) <= MaxCtorArgs
            /\ Construct(on, level, usr, resp, ih)
    /\ nops = 0
    /\ last = [op |-> "__init__", exc |-> NoException]
    /\ pc = "idle"
    /\ connected = FALSE
    /\ all_users = <<>>
    /\ start_time = 0
    /\ length = -1
    /\ now = 0
    /\ event = <<>>
    /\ msg_type = None
    /\ invoked = <<>>
    /\ calls = <<>>

\* ------------------------------------------------------------ update_flag
\* update_flag with the table reset moved before the test of the name
update_flag_resets_first(flags, table, flag_name, flag_value) ==
    IF flag_name \notin DOMAIN flags
    THEN [flags |-> flags, homophones |-> None, exc |-> "InvalidFlagNameException"]
    ELSE [flags |-> [flags EXCEPT ![flag_name] = flag_value],
          homophones |-> IF flag_name = "homophone_flg" /\ flag_value
                         THEN Some(load_homophones(None))
                         ELSE None,
          exc |-> NoException]

\* the flags and the table update_flag leaves, and the exception it raises
update_flag(flags, table, flag_name, flag_value) ==
    IF flag_name \notin DOMAIN flags
    THEN [flags |-> flags, homophones |-> table, exc |-> "InvalidFlagNameException"]
    ELSE [flags |-> [flags EXCEPT ![flag_name] = flag_value],
          homophones |-> IF flag_name = "homophone_flg" /\ flag_value
                         THEN Some(load_homophones(None))
                         ELSE None,
          exc |-> NoException]

UpdateFlag ==
    /\ pc = "idle"
    /\ UNCHANGED loop
    /\ nops < MaxConfigOps
    /\ nops' = nops + 1
    /\ \E flag_name \in FlagNames, flag_value \in BOOLEAN :
        LET out == update_flag(handler_flags, homophones, flag_name, flag_value)
        IN /\ handler_flags' = out.flags
           /\ homophones' = out.homophones
           /\ last' = [op |-> "update_flag", flag_name |-> flag_name,
                       flag_value |-> flag_value, exc |-> out.exc]
    /\ UNCHANGED <<run_level, users, responses, stay_channel>>

\* ------------------------------------------------------------ add_responses
\* arguments a caller may pass: a str, a list of str, or a value of another type
NewStrings == {"r1", "r2", "Curious"}
NewLists == {<<>>, <<"r1">>, <<"r2", "r2">>, <<"r3", "r1">>}
ResponseArgs ==
    {[type |-> "str", str |-> s, list |-> <<>>] : s \in NewStrings}
      \cup {[type |-> "list", str |-> "", list |-> l] : l \in NewLists}
      \cup {[type |-> "int", str |-> "", list |-> <<>>]}

\* add_responses without the list(set(...)) of line 128
add_responses_no_set(pool, new_responses) ==
    IF new_responses.type = "str" /\ new_responses.str \notin SeqToSet(pool)
    THEN {[pool |-> Append(pool, new_responses.str), exc |-> NoException]}
    ELSE IF new_responses.type = "list"
    THEN {[pool |-> pool \o new_responses.list, exc |-> NoException]}
    ELSE {[pool |-> pool, exc |-> "TypeNotHandledException"]}

\* the pools add_responses may leave, each with the exception raised; list(set(...))
\* lists the strings in an order of the interpreter's choosing
add_responses(pool, new_responses) ==
    IF new_responses.type = "str" /\ new_responses.str \notin SeqToSet(pool)
    THEN {[pool |-> Append(pool, new_responses.str), exc |-> NoException]}
    ELSE IF new_responses.type = "list"
    THEN {[pool |-> p, exc |-> NoException] :
             p \in AllOrders(SeqToSet(pool \o new_responses.list))}
    ELSE {[pool |-> pool, exc |-> "TypeNotHandledException"]}

AddResponses ==
    /\ pc = "idle"
    /\ UNCHANGED loop
    /\ nops < MaxConfigOps
    /\ nops' = nops + 1
    /\ \E new_responses \in ResponseArgs :
        /\ new_responses.type = "list" =>
               Cardinality(SeqToSet(responses \o new_responses.list)) <= MaxPool
        /\ \E out \in add_responses(responses, new_responses) :
            /\ responses' = out.pool
            /\ last' = [op |-> "add_responses", arg |-> new_responses, exc |-> out.exc]
    /\ UNCHANGED <<handler_flags, run_level, users, stay_channel, homophones>>

\* ------------------------------------------------------------ str_utils
\* find_element_in_string(string, element): index of the first occurrence, -1 if none
find_element_in_string(string, element) ==
    LET hits == {i \in 0..(Len(string) - Len(element)) :
                    SubSeq(string, i + 1, i + Len(element)) = element}
    IN IF hits = {} THEN -1 ELSE CHOOSE i \in hits : \A j \in hits : i <= j

Punctuation == {".", ",", "!", "?", "<", ">"}
strip_punctuation(word) == SelectSeq(word, LAMBDA c : c \notin Punctuation)

\* str.lower on the letters the texts use
LowerChar(c) == CASE c = "A" -> "a" [] c = "L" -> "l" [] c = "B" -> "b" [] c = "T" -> "t"
                  [] c = "O" -> "o" [] OTHER -> c
lower(s) == [i \in 1..Len(s) |-> LowerChar(s[i])]

\* str.split(' ')
RECURSIVE split(_)
split(s) ==
    LET i == find_element_in_string(s, <<" ">>)
    IN IF i = -1 THEN <<s>>
       ELSE <<SubSeq(s, 1, i)>> \o split(SubSeq(s, i + 2, Len(s)))

\* ------------------------------------------------------------ events
T_ok == <<"o", "k">>
T_tag == <<"<", ">", " ", "A", "n", " ", "l", "i", "?">>
T_bot == <<"<", "b", "o", "t", ">", " ", "O", "k", ",", " ", "o", "k">>
Texts == {T_ok, T_tag, T_bot}

\* sc.server.username
BotUsername == <<"b", "o", "t">>

EventKeys == {"type", "channel", "user", "text", "ts"}
FullEvents ==
    {[type |-> t, channel |-> "C1", user |-> u, text |-> x, ts |-> "1.0"] :
        t \in {"message", "hello"}, u \in {"U1", "U2"}, x \in Texts}
\* an event dict: a full event with at most MaxMissing keys left out
Events ==
    {[k \in D |-> f[k]] : f \in FullEvents,
        D \in {D \in SUBSET EventKeys : Cardinality(EventKeys \ D) <= MaxMissing}}
\* an event that arrives behind another one in the same read
Trailing == [type |-> "message", channel |-> "C2", user |-> "U1", text |-> T_tag, ts |-> "2.0"]
\* what rtm_read returns: a list of event dicts, empty when nothing arrived
Batches == {<<>>} \cup {<<e>> : e \in Events} \cup {<<e, Trailing>> : e \in FullEvents}

Has(e, k) == k \in DOMAIN e

\* event[0] with the last element of the list taken instead of the first
Event0_last(batch) == batch[Len(batch)]

\* event[0]: the element of the list rtm_read returned that every method reads
Event0(batch) == batch[1]

\* ------------------------------------------------------------ collaborators
\* what an api_call returns; Raise stands for an exception raised by the call
Raise == [raises |-> "Exception"]
Done == [ok |-> TRUE]
InfoResponses == {[ok |-> TRUE], [ok |-> FALSE], [channel |-> "C1"]}
MemberResponses == {[ok |-> TRUE, members |-> <<"U1", "U2">>],
                    [ok |-> TRUE, members |-> <<"U2">>],
                    [ok |-> FALSE]}
\* giphypop search results, as the list the comprehension builds from the generator
SearchSizes == {0, 1, 11}
SearchResults == {[i \in 1..n |-> i] : n \in SearchSizes}

\* the collaborator calls a method issues, each with what it returned
Query(api, channel, returned) == [api |-> api, channel |-> channel, returned |-> returned]
Mark(api, channel, ts, returned) ==
    [api |-> api, channel |-> channel, ts |-> ts, returned |-> returned]
Send(channel, message, returned) ==
    [api |-> "rtm_send_message", channel |-> channel, message |-> message,
     returned |-> returned]
Search(term, returned) == [api |-> "giphy.search", term |-> term, returned |-> returned]

\* the outcome of one call of a method: the exception it raised (NoException if it
\* returned) and the collaborator calls it issued, the one that raised included
Returned(cs) == [exc |-> NoException, calls |-> cs]
Raised(x, cs) == [exc |-> x, calls |-> cs]

\* ------------------------------------------------------------ get_msg_type
\* get_msg_type with the groups.info query made before im.info is looked at
get_msg_type_both_queries(e, im_info, dm_info) ==
    IF ~Has(e, "channel") THEN [exc |-> "KeyError", calls |-> <<>>, type |-> None]
    ELSE LET q1 == Query("im.info", e.channel, im_info)
             q2 == Query("groups.info", e.channel, dm_info)
         IN IF im_info = Raise
            THEN [exc |-> "CollaboratorError", calls |-> <<q1>>, type |-> None]
            ELSE IF dm_info = Raise
            THEN [exc |-> "CollaboratorError", calls |-> <<q1, q2>>, type |-> None]
            ELSE IF "ok" \in DOMAIN im_info /\ im_info.ok = FALSE
            THEN IF "ok" \in DOMAIN dm_info /\ dm_info.ok = FALSE
                 THEN [exc |-> NoException, calls |-> <<q1, q2>>, type |-> Some("Public")]
                 ELSE [exc |-> NoException, calls |-> <<q1, q2>>, type |-> Some("Private")]
            ELSE [exc |-> NoException, calls |-> <<q1, q2>>, type |-> Some("IM")]

\* im_info and dm_info are what the two queries answer (Raise: the call raises);
\* dm_info is used only when the second query is made
get_msg_type(e, im_info, dm_info) ==
    IF ~Has(e, "channel") THEN [exc |-> "KeyError", calls |-> <<>>, type |-> None]
    ELSE LET q1 == Query("im.info", e.channel, im_info)
             q2 == Query("groups.info", e.channel, dm_info)
         IN IF im_info = Raise
            THEN [exc |-> "CollaboratorError", calls |-> <<q1>>, type |-> None]
            ELSE IF "ok" \in DOMAIN im_info /\ im_info.ok = FALSE
            THEN IF dm_info = Raise
                 THEN [exc |-> "CollaboratorError", calls |-> <<q1, q2>>, type |-> None]
                 ELSE IF "ok" \in DOMAIN dm_info /\ dm_info.ok = FALSE
                      THEN [exc |-> NoException, calls |-> <<q1, q2>>, type |-> Some("Public")]
                      ELSE [exc |-> NoException, calls |-> <<q1, q2>>, type |-> Some("Private")]
            ELSE [exc |-> NoException, calls |-> <<q1>>, type |-> Some("IM")]

\* the test of lines 174-176 with the 'Private' level admitting every scope
InScope_private_any(level, mtype) ==
    \/ level = "DM Only" /\ mtype = "IM"
    \/ level = "Private"
    \/ level = "All"

\* the test of lines 174-176
InScope(level, mtype) ==
    \/ level = "DM Only" /\ mtype = "IM"
    \/ level = "Private" /\ mtype # "Public"
    \/ level = "All"

\* the except clause every behaviour ends with: a KeyError is dropped when the
\* event has no 'type' and raised again otherwise
OnKeyError(e, cs) == IF ~Has(e, "type") THEN Returned(cs) ELSE Raised("KeyError", cs)

\* ------------------------------------------------------------ random_reply
\* randint: the index drawn; results: what the search yields; fail: the call that raises
random_reply(flags, usrs, pool, e, randint, results, fail) ==
    IF ~Has(e, "type") THEN OnKeyError(e, <<>>)
    ELSE IF e.type # "message" THEN Returned(<<>>)
    ELSE IF ~Has(e, "user") THEN OnKeyError(e, <<>>)
    ELSE IF usrs = None THEN Raised("TypeError", <<>>)
    ELSE IF e.user \notin SeqToSet(usrs[1]) THEN Returned(<<>>)
    ELSE LET message == pool[randint + 1]
             search == Search(message, [results |-> results])
             gif == [fmt |-> "{m}\n{v}", m |-> message, v |-> results[1]]
             plain == [fmt |-> "{m}", m |-> message]
         IN IF flags["random_gif_flg"]
            THEN IF fail = "giphy.search"
                 THEN Raised("CollaboratorError", <<Search(message, Raise)>>)
                 ELSE IF Len(results) = 0 THEN Raised("IndexError", <<search>>)
                 ELSE IF ~Has(e, "channel") THEN OnKeyError(e, <<search>>)
                 ELSE IF fail = "rtm_send_message"
                      THEN Raised("CollaboratorError", <<search, Send(e.channel, gif, Raise)>>)
                      ELSE Returned(<<search, Send(e.channel, gif, Done)>>)
            ELSE IF ~Has(e, "channel") THEN OnKeyError(e, <<>>)
                 ELSE IF fail = "rtm_send_message"
                      THEN Raised("CollaboratorError", <<Send(e.channel, plain, Raise)>>)
                      ELSE Returned(<<Send(e.channel, plain, Done)>>)

\* ------------------------------------------------------------ mark_read
MarkApi(mtype) ==
    CASE mtype = "IM" -> "im.mark"
      [] mtype = "Private" -> "groups.mark"
      [] OTHER -> "channels.mark"

\* mark_read without the test of the bot username of line 270
mark_read_any_tag(e, mtype, fail) ==
    IF ~Has(e, "type") THEN OnKeyError(e, <<>>)
    ELSE IF e.type # "message" THEN Returned(<<>>)
    ELSE IF ~Has(e, "text") THEN OnKeyError(e, <<>>)
    ELSE IF /\ find_element_in_string(e.text, <<"<">>) # -1
            /\ find_element_in_string(e.text, <<">">>) # -1
         THEN IF ~Has(e, "channel") \/ ~Has(e, "ts") THEN OnKeyError(e, <<>>)
              ELSE IF fail = "mark"
                   THEN Raised("CollaboratorError",
                               <<Mark(MarkApi(mtype), e.channel, e.ts, Raise)>>)
                   ELSE Returned(<<Mark(MarkApi(mtype), e.channel, e.ts, Done)>>)
         ELSE Returned(<<>>)

mark_read(e, mtype, fail) ==
    IF ~Has(e, "type") THEN OnKeyError(e, <<>>)
    ELSE IF e.type # "message" THEN Returned(<<>>)
    ELSE IF ~Has(e, "text") THEN OnKeyError(e, <<>>)
    ELSE IF /\ find_element_in_string(e.text, <<"<">>) # -1
            /\ find_element_in_string(e.text, <<">">>) # -1
            /\ find_element_in_string(e.text, BotUsername) = -1
         THEN IF ~Has(e, "channel") \/ ~Has(e, "ts") THEN OnKeyError(e, <<>>)
              ELSE IF fail = "mark"
                   THEN Raised("CollaboratorError",
                               <<Mark(MarkApi(mtype), e.channel, e.ts, Raise)>>)
                   ELSE Returned(<<Mark(MarkApi(mtype), e.channel, e.ts, Done)>>)
         ELSE Returned(<<>>)

\* ------------------------------------------------------------ someones_talking_about_you
\* the directory begin builds from users.list: members with both names in the profile
Directory(members) ==
    LET keep == SelectSeq(members, LAMBDA u : "first_name" \in DOMAIN u.profile
                                              /\ "last_name" \in DOMAIN u.profile)
    IN [i \in 1..Len(keep) |-> [name |-> keep[i].name, id |-> keep[i].id,
                                first_name |-> keep[i].profile.first_name,
                                last_name |-> keep[i].profile.last_name]]

\* someones_talking_about_you without the membership test of lines 312-317
someones_talking_about_you_any_match(stay, e, mtype, directory, convo_members, fail) ==
    IF ~Has(e, "type") THEN OnKeyError(e, <<>>)
    ELSE IF ~(e.type = "message" /\ mtype # "Public") THEN Returned(<<>>)
    ELSE IF ~Has(e, "text") THEN OnKeyError(e, <<>>)
    ELSE LET users_to_notify ==
                 SelectSeq(directory, LAMBDA u :
                     find_element_in_string(lower(e.text),
                         lower(u.first_name) \o <<" ">> \o lower(u.last_name)) # -1)
             user_ids == [i \in 1..Len(users_to_notify) |-> users_to_notify[i].id]
             query == Query("conversations.members", e.channel, convo_members)
             message == [fmt |-> "Hey <@{u}> <@{c}> were talking about you {s} {t}",
                         u |-> user_ids, c |-> convo_members.members,
                         s |-> e.user, t |-> e.text]
         IN IF Len(users_to_notify) = 0 THEN Returned(<<>>)
            ELSE IF ~Has(e, "channel") THEN OnKeyError(e, <<>>)
            ELSE IF fail = "conversations.members"
                 THEN Raised("CollaboratorError",
                             <<Query("conversations.members", e.channel, Raise)>>)
            ELSE IF "members" \notin DOMAIN convo_members THEN OnKeyError(e, <<query>>)
            ELSE IF ~Has(e, "user") THEN OnKeyError(e, <<query>>)
            ELSE IF fail = "rtm_send_message"
                 THEN Raised("CollaboratorError", <<query, Send(stay, message, Raise)>>)
            ELSE Returned(<<query, Send(stay, message, Done)>>)

someones_talking_about_you(stay, e, mtype, directory, convo_members, fail) ==
    IF ~Has(e, "type") THEN OnKeyError(e, <<>>)
    ELSE IF ~(e.type = "message" /\ mtype # "Public") THEN Returned(<<>>)
    ELSE IF ~Has(e, "text") THEN OnKeyError(e, <<>>)
    ELSE LET users_to_notify ==
                 SelectSeq(directory, LAMBDA u :
                     find_element_in_string(lower(e.text),
                         lower(u.first_name) \o <<" ">> \o lower(u.last_name)) # -1)
             user_ids == [i \in 1..Len(users_to_notify) |-> users_to_notify[i].id]
             query == Query("conversations.members", e.channel, convo_members)
             message == [fmt |-> "Hey <@{u}> <@{c}> were talking about you {s} {t}",
                         u |-> user_ids, c |-> convo_members.members,
                         s |-> e.user, t |-> e.text]
         IN IF Len(users_to_notify) = 0 THEN Returned(<<>>)
            ELSE IF ~Has(e, "channel") THEN OnKeyError(e, <<>>)
            ELSE IF fail = "conversations.members"
                 THEN Raised("CollaboratorError",
                             <<Query("conversations.members", e.channel, Raise)>>)
            ELSE IF "members" \notin DOMAIN convo_members THEN OnKeyError(e, <<query>>)
            ELSE IF \A i \in 1..Len(user_ids) : user_ids[i] \in SeqToSet(convo_members.members)
                 THEN Returned(<<query>>)
            ELSE IF ~Has(e, "user") THEN OnKeyError(e, <<query>>)
            ELSE IF fail = "rtm_send_message"
                 THEN Raised("CollaboratorError", <<query, Send(stay, message, Raise)>>)
            ELSE Returned(<<query, Send(stay, message, Done)>>)

\* ------------------------------------------------------------ magic_eight
magic_eight(usrs, e, randint, results, fail) ==
    IF ~Has(e, "type") THEN OnKeyError(e, <<>>)
    ELSE IF e.type # "message" THEN Returned(<<>>)
    ELSE IF ~Has(e, "user") THEN OnKeyError(e, <<>>)
    ELSE IF usrs = None THEN Raised("TypeError", <<>>)
    ELSE IF e.user \notin SeqToSet(usrs[1]) THEN Returned(<<>>)
    ELSE IF ~Has(e, "text") THEN OnKeyError(e, <<>>)
    ELSE IF find_element_in_string(e.text, <<"?">>) >= 0
         THEN LET term == "magic eight ball"
                  search == Search(term, [results |-> results])
                  message == [fmt |-> "{v}\n", v |-> results[randint + 1]]
              IN IF fail = "giphy.search"
                 THEN Raised("CollaboratorError", <<Search(term, Raise)>>)
                 ELSE IF randint >= Len(results) THEN Raised("IndexError", <<search>>)
                 ELSE IF ~Has(e, "channel") THEN OnKeyError(e, <<search>>)
                 ELSE IF fail = "rtm_send_message"
                      THEN Raised("CollaboratorError",
                                  <<search, Send(e.channel, message, Raise)>>)
                      ELSE Returned(<<search, Send(e.channel, message, Done)>>)
         ELSE Returned(<<>>)

\* ------------------------------------------------------------ homophone_suggest
\* failing = 0: no send raises; failing = n: the n-th send raises
homophone_suggest(table, e, failing) ==
    IF ~Has(e, "text") THEN OnKeyError(e, <<>>)
    ELSE IF table = None THEN Raised("AttributeError", <<>>)
    ELSE LET words == split(lower(e.text))
             kept == SelectSeq(words, LAMBDA w : strip_punctuation(w) \in DOMAIN table[1])
             text_words == [i \in 1..Len(kept) |-> strip_punctuation(kept[i])]
             message(i) == [fmt |-> "Hey <@{u}>!\n\tYou typed {k}, but you probably meant {v}.",
                            u |-> e.user, k |-> text_words[i], v |-> table[1][text_words[i]]]
         IN IF Len(text_words) = 0 THEN Returned(<<>>)
            ELSE IF ~Has(e, "user") \/ ~Has(e, "channel") THEN OnKeyError(e, <<>>)
            ELSE IF failing \in 1..Len(text_words)
                 THEN Raised("CollaboratorError",
                             [i \in 1..failing |->
                                 Send(e.channel, message(i), IF i = failing THEN Raise ELSE Done)])
                 ELSE Returned([i \in 1..Len(text_words) |-> Send(e.channel, message(i), Done)])

\* ------------------------------------------------------------ begin
Lengths == {-1, 0}
Running == "running"

Behaviours == <<"random_reply", "mark_read", "someones_talking_about_you", "magic_eight",
                "homophone_suggest">>
FlagOf == <<"random_reply_flg", "mark_read_flg", "someones_talking_about_you_flg",
            "magic_eight_flg", "homophone_flg">>

\* lines 179-188: the first behaviour after the i-th whose flag is set, else the sleep
NextEnabled(flags, i) ==
    LET later == {j \in (i + 1)..Len(Behaviours) : flags[FlagOf[j]]}
    IN IF later = {} THEN "sleep" ELSE Behaviours[CHOOSE j \in later : \A k \in later : j <= k]

\* begin ends: it returns (NoException) or raises x; at is where it was
Ends(x) ==
    /\ pc' = "done"
    /\ last' = [op |-> "begin", exc |-> x, at |-> pc]

\* lines 146-161: connect, build the directory, take the start time
Begin ==
    /\ pc = "idle"
    /\ UNCHANGED <<config, nops, now, event, msg_type, invoked, calls>>
    /\ \E len \in Lengths, rtm_connect \in BOOLEAN,
          users_list \in {Raise, [ok |-> TRUE, members |-> Members]} :
        /\ length' = len
        /\ connected' = rtm_connect
        /\ IF ~rtm_connect
           THEN Ends(NoException) /\ UNCHANGED <<all_users, start_time>>
           ELSE IF users_list = Raise
           THEN Ends("CollaboratorError") /\ UNCHANGED <<all_users, start_time>>
           ELSE /\ all_users' = Directory(users_list.members)
                /\ start_time' = now
                /\ pc' = "loop"
                /\ last' = [op |-> "begin", exc |-> Running, at |-> pc]

\* the while condition with the deadline left out
KeepsLooping_no_deadline(server_connected, time, start, len) == server_connected

\* line 164: the while condition
KeepsLooping(server_connected, time, start, len) ==
    server_connected /\ (time <= start + len \/ len = -1)

\* lines 164-168 and 196-197: the while test, rtm_read and the test of the event
LoopTest ==
    /\ pc = "loop"
    /\ UNCHANGED <<config, nops, all_users, start_time, length, now>>
    /\ \E server_connected \in BOOLEAN :
        /\ connected' = server_connected
        /\ IF KeepsLooping(server_connected, now, start_time, length)
           THEN \/ \* rtm_read raises
                   Ends("CollaboratorError") /\ UNCHANGED <<event, msg_type, invoked, calls>>
                \/ \E rtm_read \in Batches :
                     /\ event' = rtm_read
                     /\ msg_type' = None
                     /\ invoked' = <<>>
                     /\ calls' = <<>>
                     /\ pc' = IF rtm_read # <<>> THEN "event" ELSE "sleep"
                     /\ UNCHANGED last
           ELSE Ends(NoException) /\ UNCHANGED <<event, msg_type, invoked, calls>>

\* lines 172-176, 189-190 and 193-194: classify the event and test the run level
Classify ==
    /\ pc = "event"
    /\ UNCHANGED <<config, nops, connected, all_users, start_time, length, now, event, invoked>>
    /\ \E im_info \in InfoResponses \cup {Raise}, dm_info \in InfoResponses \cup {Raise} :
        LET r == get_msg_type(Event0(event), im_info, dm_info)
        IN /\ calls' = calls \o r.calls
           /\ msg_type' = r.type
           /\ IF r.exc = NoException
              THEN /\ pc' = IF InScope(run_level, r.type[1])
                            THEN NextEnabled(handler_flags, 0)
                            ELSE "sleep"
                   /\ UNCHANGED last
              ELSE IF r.exc = "KeyError"
              THEN pc' = "loop" /\ UNCHANGED last
              ELSE Ends(r.exc)

\* what a collaborator call that does not return raises: an error of its own, or the
\* KeyboardInterrupt of an interrupt delivered while the call is in flight
CallExceptions == {"CollaboratorError", "KeyboardInterrupt"}

\* the i-th behaviour was called and ended as out: lines 179-188, 193-194 and 198-200
Finish(i, out) ==
    /\ UNCHANGED <<config, nops, connected, all_users, start_time, length, now, event, msg_type>>
    /\ invoked' = Append(invoked, Behaviours[i])
    /\ calls' = calls \o out.calls
    /\ IF out.exc = NoException
       THEN pc' = NextEnabled(handler_flags, i) /\ UNCHANGED last
       ELSE IF out.exc = "KeyError"
       THEN pc' = "loop" /\ UNCHANGED last
       ELSE IF out.exc = "CollaboratorError"
       THEN \E x \in CallExceptions : Ends(x)
       ELSE Ends(out.exc)

RandomReply ==
    /\ pc = "random_reply"
    /\ \E randint \in 0..(Len(responses) - 1), results \in SearchResults,
          fail \in {"none", "giphy.search", "rtm_send_message"} :
        Finish(1, random_reply(handler_flags, users, responses, Event0(event), randint, results, fail))

MarkRead ==
    /\ pc = "mark_read"
    /\ \E fail \in {"none", "mark"} :
        Finish(2, mark_read(Event0(event), msg_type[1], fail))

SomeonesTalkingAboutYou ==
    /\ pc = "someones_talking_about_you"
    /\ \E convo_members \in MemberResponses,
          fail \in {"none", "conversations.members", "rtm_send_message"} :
        Finish(3, someones_talking_about_you(stay_channel, Event0(event), msg_type[1], all_users,
                                             convo_members, fail))

MagicEight ==
    /\ pc = "magic_eight"
    /\ \E randint \in 0..10, results \in SearchResults,
          fail \in {"none", "giphy.search", "rtm_send_message"} :
        Finish(4, magic_eight(users, Event0(event), randint, results, fail))

HomophoneSuggest ==
    /\ pc = "homophone_suggest"
    /\ \E failing \in 0..2 :
        Finish(5, homophone_suggest(homophones, Event0(event), failing))

\* line 191
Sleep ==
    /\ pc = "sleep"
    /\ now < MaxTime
    /\ now' = now + 1
    /\ pc' = "loop"
    /\ UNCHANGED <<config, nops, last, connected, all_users, start_time, length, event,
                   msg_type, invoked, calls>>

\* lines 198-200: the operator interrupts begin
Interrupt ==
    /\ pc \notin {"idle", "done"}
    /\ Ends("KeyboardInterrupt")
    /\ UNCHANGED <<config, nops, connected, all_users, start_time, length, now, event,
                   msg_type, invoked, calls>>

\* the mutators, called on a constructed handler
NextConfig ==
    \/ UpdateFlag
    \/ AddResponses

SpecConfig == Init /\ [][NextConfig]_vars

\* begin, called on a constructed handler
Next ==
    \/ Begin
    \/ LoopTest
    \/ Classify
    \/ RandomReply
    \/ MarkRead
    \/ SomeonesTalkingAboutYou
    \/ MagicEight
    \/ HomophoneSuggest
    \/ Sleep
    \/ Interrupt

Spec == Init /\ [][Next]_vars

\* begin with a loop that goes on: the while test of line 164 is evaluated again
\* whenever the loop is back at it
SpecLive == Spec /\ WF_vars(LoopTest)

\* ------------------------------------------------------------ properties
\* the exception begin raised was the operator's interrupt
Interrupted == last.op = "begin" /\ last.exc = "KeyboardInterrupt"
\* begin ended while an event was being classified or dispatched
EndedInEvent == pc = "done" /\ last.op = "begin" /\ last.at \in {"event"} \cup SeqToSet(Behaviours)
\* the handling of the event read last is over
EventHandled ==
    /\ event # <<>>
    /\ ~Interrupted
    /\ pc \in {"sleep", "loop"} \/ EndedInEvent
SomeEnabled == \E i \in 1..Len(Behaviours) : handler_flags[FlagOf[i]]
Dispatched == invoked # <<>> \/ pc \in SeqToSet(Behaviours)
Outbound == {"rtm_send_message", "im.mark", "groups.mark", "channels.mark"}
Sends == Len(SelectSeq(calls, LAMBDA c : c.api = "rtm_send_message"))
NoDuplicates(s) == \A i, j \in 1..Len(s) : s[i] = s[j] => i = j

\* the (run-level, scope) pairs the specification lists as allowed
AllowedPairs == {<<"DM Only", "IM">>, <<"Private", "IM">>, <<"Private", "Private">>,
                 <<"All", "IM">>, <<"All", "Private">>, <<"All", "Public">>}

\* C1: for an event that was classified, the enabled behaviours are dispatched iff the
\* pair (run_level, scope) is one of the allowed pairs, whatever the event, the flags
\* and the rest of the configuration are; when the pair is not allowed no behaviour
\* is invoked and no send or mark call is issued for the event.
C1_Gating ==
    (last.op = "begin" /\ ~Interrupted /\ msg_type # None) =>
        /\ Dispatched <=> (<<run_level, msg_type[1]>> \in AllowedPairs /\ SomeEnabled)
        /\ <<run_level, msg_type[1]>> \notin AllowedPairs =>
               /\ invoked = <<>>
               /\ \A i \in 1..Len(calls) : calls[i].api \notin Outbound

\* C1 witness: a complete message from a public channel was classified under 'Private'
\* with the reply behaviour enabled, and the loop went on to its sleep.
C1_Witness ==
    /\ pc = "sleep"
    /\ run_level = "Private"
    /\ msg_type = Some("Public")
    /\ handler_flags["random_reply_flg"]
    /\ DOMAIN event[1] = EventKeys
    /\ event[1].type = "message"
    /\ invoked = <<>>

\* C2: once the handling of an event is over and the loop is back at its test, every
\* enabled behaviour has been invoked for that event, also when one of them raised on
\* a missing field.
C2_LaterBehavioursStillInvoked ==
    (pc = "loop" /\ invoked # <<>>) =>
        \A i \in 1..Len(Behaviours) :
            handler_flags[FlagOf[i]] => Behaviours[i] \in SeqToSet(invoked)

\* C3: begin never ends with the failure of a collaborator call made while an event
\* is classified or dispatched.
C3_CollaboratorFailureKeepsLoop ==
    ~(EndedInEvent /\ last.exc = "CollaboratorError")

\* C4: with only the reply behaviour enabled, an event with a missing field and an
\* event out of scope produce no send call, and a complete in-scope message from an
\* allow-listed sender produces exactly one.
C4_OnlyValidEventsAreAnswered ==
    (EventHandled /\ handler_flags = [f \in Flags |-> f = "random_reply_flg"]) =>
        LET e == event[1]
            malformed == DOMAIN e # EventKeys
            out_of_scope == msg_type # None /\ <<run_level, msg_type[1]>> \notin AllowedPairs
            valid == /\ ~malformed
                     /\ e.type = "message"
                     /\ users # None
                     /\ e.user \in SeqToSet(users[1])
                     /\ msg_type # None
                     /\ <<run_level, msg_type[1]>> \in AllowedPairs
        IN /\ (malformed \/ out_of_scope) => Sends = 0
           /\ valid => Sends = 1

\* C5: when rtm_connect reports failure begin reads no event, runs no behaviour and
\* raises a connection failure to its caller.
C5_ConnectFailureReported ==
    (pc = "done" /\ last.op = "begin" /\ last.at = "idle" /\ ~connected) =>
        /\ event = <<>>
        /\ invoked = <<>>
        /\ last.exc = "ConnectionFailure"

\* C6: the homophone table is loaded iff handler_flags['homophone_flg'] is true.
C6_TableIffFlag ==
    (homophones # None) <=> handler_flags["homophone_flg"]

\* C7: add_responses raises the unsupported-type error exactly when its argument is
\* neither a str nor a list of str.
C7_UnsupportedTypeOnly ==
    last.op = "add_responses" =>
        (last.exc = "TypeNotHandledException" <=> last.arg.type \notin {"str", "list"})

\* C8: the reply pool is never empty and never holds a string twice; an add_responses
\* call with a string already in the pool leaves the pool as it was, and a call with
\* a list leaves the strings of the old pool and of the list, each once.
C8_PoolDeduplicated ==
    /\ [](Len(responses) > 0 /\ NoDuplicates(responses))
    /\ [][(nops' = nops + 1 /\ last'.op = "add_responses") =>
            /\ (last'.arg.type = "str" /\ last'.arg.str \in SeqToSet(responses)) =>
                   responses' = responses
            /\ last'.arg.type = "list" =>
                   /\ SeqToSet(responses') =
                          SeqToSet(responses) \cup SeqToSet(last'.arg.list)
                   /\ NoDuplicates(responses')]_vars

\* C8 witness: a list that repeats a string of the pool was added to a two-string pool.
C8_Witness ==
    /\ last.op = "add_responses"
    /\ last.arg.type = "list"
    /\ last.arg.list = <<"r3", "r1">>
    /\ last.exc = NoException
    /\ SeqToSet(responses) = {"r1", "r2", "r3"}

\* C9: an update_flag call with a name that is not a recognised flag raises the
\* invalid-flag error and leaves the flags, the homophone table, the reply pool, the
\* run-level and the allow-list as they were.
C9_InvalidFlagChangesNothing ==
    [][(nops' = nops + 1 /\ last'.op = "update_flag" /\ last'.flag_name \notin Flags) =>
          /\ last'.exc = "InvalidFlagNameException"
          /\ UNCHANGED config]_vars

\* C9 witness: update_flag was called with an unrecognised name on a handler whose
\* homophone table is loaded.
C9_Witness ==
    /\ last.op = "update_flag"
    /\ last.flag_name \notin Flags
    /\ last.exc = "InvalidFlagNameException"
    /\ homophones # None

\* a metadata query answered that the channel is not of the kind asked for
ReportsFailure(r) == "ok" \in DOMAIN r /\ r.ok = FALSE

\* C10: a classified event has exactly one of the three scopes; im.info was queried
\* first for the event's channel; if it did not report failure the scope is IM and
\* groups.info was not queried; otherwise groups.info was queried next and the scope
\* is Private unless that query reported failure too, and Public if it did.
C10_StrictFallback ==
    msg_type # None =>
        LET info == SelectSeq(calls, LAMBDA c : c.api \in {"im.info", "groups.info"})
        IN /\ msg_type[1] \in {"IM", "Private", "Public"}
           /\ Len(info) >= 1
           /\ calls[1] = info[1]
           /\ info[1].api = "im.info"
           /\ info[1].channel = event[1].channel
           /\ IF ~ReportsFailure(info[1].returned)
              THEN msg_type[1] = "IM" /\ Len(info) = 1
              ELSE /\ Len(info) = 2
                   /\ calls[2] = info[2]
                   /\ info[2].api = "groups.info"
                   /\ info[2].channel = event[1].channel
                   /\ msg_type[1] = IF ReportsFailure(info[2].returned)
                                    THEN "Public" ELSE "Private"

\* C10 witness: the direct-message query reported failure and the private-group query
\* did not, so the event was classified Private after two queries.
C10_Witness ==
    /\ msg_type = Some("Private")
    /\ Len(calls) >= 2
    /\ ReportsFailure(calls[1].returned)
    /\ ~ReportsFailure(calls[2].returned)

\* C11: when begin ends on the operator's interrupt, no collaborator call of the event
\* in hand was cut short: every call that was issued returned, so the behaviour in
\* flight ran to its end before the interrupt was observed.
C11_CancellationBetweenOperations ==
    Interrupted => \A i \in 1..Len(calls) : calls[i].returned # Raise

\* the clock has passed the deadline of a begin that is running with a deadline set
Expired == pc \notin {"idle", "done"} /\ length >= 0 /\ now > start_time + length

\* C12: with a deadline set, begin leaves the loop once the clock has passed
\* start_time + length, and no event is read after that; with length = -1 begin never
\* returns from the loop test while the server is still connected.
C12_DeadlineEndsLoop ==
    /\ Expired ~> (pc = "done")
    /\ [][(pc = "loop" /\ pc' \in {"event", "sleep"}) =>
            (length = -1 \/ now <= start_time + length)]_vars
    /\ [][(pc = "loop" /\ pc' = "done" /\ last'.exc = NoException /\ length = -1) =>
            ~connected']_vars

\* C12 witness: begin ran with length = 0, the clock passed the deadline during the
\* sleep, and begin returned from the loop test with the server still connected.
C12_Witness ==
    /\ pc = "done"
    /\ last = [op |-> "begin", exc |-> NoException, at |-> "loop"]
    /\ connected
    /\ length = 0
    /\ now > start_time + length

\* only the reply and the magic-eight behaviours are enabled, if any
OnlySenderGated ==
    \A i \in 1..Len(Behaviours) :
        handler_flags[FlagOf[i]] => Behaviours[i] \in {"random_reply", "magic_eight"}

\* C13: for a 'message' event whose sender is not in the allow-list, the case of no
\* allow-list configured included, the reply and the magic-eight behaviours send
\* nothing and raise nothing.
C13_OnlyAllowListedSenders ==
    (/\ event # <<>>
     /\ ~Interrupted
     /\ OnlySenderGated
     /\ Has(Event0(event), "type") /\ Event0(event).type = "message"
     /\ Has(Event0(event), "user")
     /\ (users = None \/ Event0(event).user \notin SeqToSet(users[1]))) =>
        /\ Sends = 0
        /\ ~(EndedInEvent /\ last.at \in {"random_reply", "magic_eight"})

\* C14: when neither the mark-read nor the mention-notify behaviour is enabled, no
\* scope-classification query (im.info, groups.info) is issued for an event.
C14_ClassifiesOnlyWhenScopeSensitive ==
    (~handler_flags["mark_read_flg"] /\ ~handler_flags["someones_talking_about_you_flg"]) =>
        \A i \in 1..Len(calls) : calls[i].api \notin {"im.info", "groups.info"}

\* C15: the loop comes back to its test only from the sleep (or from the start of
\* begin), so that one sleep lies between any two consecutive reads of the stream.
C15_OneSleepPerIteration ==
    [][pc' = "loop" => pc \in {"idle", "sleep"}]_vars

\* the mention-notify behaviour was the last one called for the event and it returned
NotifyReturned ==
    /\ invoked # <<>>
    /\ invoked[Len(invoked)] = "someones_talking_about_you"
    /\ pc \in {"magic_eight", "homophone_suggest", "sleep"}
\* the notifications sent to the notify channel and the membership queries made
Notified ==
    SelectSeq(calls, LAMBDA c : c.api = "rtm_send_message" /\ c.channel = stay_channel)
Fetched == SelectSeq(calls, LAMBDA c : c.api = "conversations.members")
\* the directory entries whose "first last" name occurs in the text, whatever the case
Mentioned ==
    {i \in 1..Len(all_users) :
        find_element_in_string(lower(Event0(event).text),
            lower(all_users[i].first_name) \o <<" ">> \o lower(all_users[i].last_name)) # -1}

\* C16: when mention-notify returns for a 'message' event, it has fetched the
\* membership of the event's channel once iff the scope is not Public and a name of
\* the directory occurs in the text, and it has sent one notification to the notify
\* channel iff moreover a mentioned user is not in that membership; otherwise it
\* has sent and fetched nothing.
C16_NotifiesAbsentMentionedUsers ==
    (NotifyReturned /\ Has(Event0(event), "type") /\ Event0(event).type = "message") =>
        IF msg_type[1] = "Public"
        THEN Len(Notified) = 0 /\ Len(Fetched) = 0
        ELSE /\ Len(Fetched) = IF Mentioned = {} THEN 0 ELSE 1
             /\ Mentioned # {} => Fetched[1].channel = Event0(event).channel
             /\ Len(Notified) =
                    IF /\ Mentioned # {}
                       /\ \E i \in Mentioned :
                             all_users[i].id \notin SeqToSet(Fetched[1].returned.members)
                    THEN 1 ELSE 0

\* C16 witness: "An li" was written in a private group of which U1 is not a member,
\* and one notification naming U1 went to the notify channel.
C16_Witness ==
    /\ NotifyReturned
    /\ msg_type = Some("Private")
    /\ Len(Fetched) = 1
    /\ Fetched[1].returned.members = <<"U2">>
    /\ Len(Notified) = 1
    /\ Notified[1].message.u = <<"U1">>

\* the mark-read behaviour was the last one called for the event and it returned
MarkReturned ==
    /\ invoked # <<>>
    /\ invoked[Len(invoked)] = "mark_read"
    /\ pc \in {"someones_talking_about_you", "magic_eight", "homophone_suggest", "sleep"}
Marks == SelectSeq(calls, LAMBDA c : c.api \in {"im.mark", "groups.mark", "channels.mark"})
\* the event is a 'message' with a '<' and a '>' in its text and without the bot's name
TagsSomeoneElse ==
    /\ Has(Event0(event), "type")
    /\ Event0(event).type = "message"
    /\ \E i \in 1..Len(Event0(event).text) : Event0(event).text[i] = "<"
    /\ \E i \in 1..Len(Event0(event).text) : Event0(event).text[i] = ">"
    /\ ~\E i \in 1..(Len(Event0(event).text) - Len(BotUsername) + 1) :
           SubSeq(Event0(event).text, i, i + Len(BotUsername) - 1) = BotUsername

\* C17: when mark-read returns it has issued one mark call, for the channel and the
\* timestamp of the event and of the kind of the scope (im.mark for IM, groups.mark
\* for Private, channels.mark otherwise), iff the event is a 'message' whose text has
\* a '<' and a '>' and not the bot's name; in every other case it has issued none.
C17_MarksTaggedMessages ==
    MarkReturned =>
        IF TagsSomeoneElse
        THEN /\ Len(Marks) = 1
             /\ Marks[1].channel = Event0(event).channel
             /\ Marks[1].ts = Event0(event).ts
             /\ Marks[1].api = IF msg_type[1] = "IM" THEN "im.mark"
                               ELSE IF msg_type[1] = "Private" THEN "groups.mark"
                               ELSE "channels.mark"
        ELSE Len(Marks) = 0

\* C17 witness: a message that tags someone in a private group was marked as read
\* with groups.mark.
C17_Witness ==
    /\ MarkReturned
    /\ msg_type = Some("Private")
    /\ Len(Marks) = 1
    /\ Marks[1].api = "groups.mark"

MagicSearches ==
    SelectSeq(calls, LAMBDA c : c.api = "giphy.search" /\ c.term = "magic eight ball")
MagicAnswers ==
    SelectSeq(calls, LAMBDA c : c.api = "rtm_send_message" /\ c.message.fmt = "{v}\n")

\* C19: once magic-eight has run for a complete 'message' event of an allow-listed
\* sender with no collaborator call failing, then if the text has a '?' and the search
\* yielded at least its first result, exactly one result was sent to the event's
\* channel, whatever index was drawn; and if the text has no '?', nothing was searched
\* or sent.
C19_MagicEightAlwaysAnswers ==
    (/\ invoked # <<>>
     /\ invoked[Len(invoked)] = "magic_eight"
     /\ ~Interrupted
     /\ DOMAIN Event0(event) = EventKeys
     /\ Event0(event).type = "message"
     /\ users # None
     /\ Event0(event).user \in SeqToSet(users[1])
     /\ \A i \in 1..Len(calls) : calls[i].returned # Raise) =>
        IF \E i \in 1..Len(Event0(event).text) : Event0(event).text[i] = "?"
        THEN /\ Len(MagicSearches) = 1
             /\ Len(MagicSearches[1].returned.results) >= 1 =>
                    /\ Len(MagicAnswers) = 1
                    /\ MagicAnswers[1].channel = Event0(event).channel
        ELSE Len(MagicSearches) = 0 /\ Len(MagicAnswers) = 0

\* the number of calls of one api issued since the last read
Issued(api) == Len(SelectSeq(calls, LAMBDA c : c.api = api))

\* C20: since the last read of the stream each behaviour was invoked at most once and
\* the scope was queried at most once, and every call issued is about the first
\* element of the batch read: its channel is the channel of that element (or the
\* notify channel) and a mark carries its timestamp; a read that returned nothing
\* leads to no classification, no behaviour and no call.
C20_OnlyFirstElementHandled ==
    /\ NoDuplicates(invoked)
    /\ Issued("im.info") <= 1
    /\ Issued("groups.info") <= 1
    /\ event = <<>> => (msg_type = None /\ invoked = <<>> /\ calls = <<>>)
    /\ \A i \in 1..Len(calls) :
          /\ "channel" \in DOMAIN calls[i] =>
                \/ calls[i].api = "rtm_send_message" /\ calls[i].channel = stay_channel
                \/ Has(event[1], "channel") /\ calls[i].channel = event[1].channel
          /\ "ts" \in DOMAIN calls[i] => calls[i].ts = event[1].ts

\* C20 witness: a read returned a 'hello' event followed by a message that tags
\* someone; mark-read ran once, for the 'hello' event, and marked nothing.
C20_Witness ==
    /\ Len(event) = 2
    /\ event[1].type = "hello"
    /\ pc = "sleep"
    /\ invoked = <<"mark_read">>
    /\ Issued("im.info") = 1
    /\ Marks = <<>>
====
